---------------------------- MODULE Spec2Model ----------------------------
(***************************************************************************)
(* Model of streamlit_app.py: the SolarRiskCalculator scoring engine and   *)
(* the six-step Streamlit wizard that drives it.                           *)
(*                                                                         *)
(* Scores are Python floats.  They are modelled as IEEE 754 binary64       *)
(* values with round-to-nearest-even, because the thresholds of the        *)
(* engine (3.0, 4.5, ...) are compared against sums of rounded products.   *)
(* What the builtin sum() returns for floats depends on the interpreter    *)
(* that runs the program, so the interpreter is part of the state.         *)
(***************************************************************************)
EXTENDS Integers, Sequences, FiniteSets, TLC

(***************************************************************************)
(* Natural numbers of arbitrary size: little-endian sequences of limbs in  *)
(* 0..Base-1 without leading zero limbs; <<>> is zero.  They carry the     *)
(* significands of the doubles.                                            *)
(***************************************************************************)
LimbBits == 15

Base == 2^LimbBits

RECURSIVE BTrim(_)
BTrim(s) ==
    IF s = <<>> THEN <<>>
    ELSE IF s[Len(s)] = 0 THEN BTrim(SubSeq(s, 1, Len(s) - 1))
    ELSE s

RECURSIVE BFromNat(_)
BFromNat(n) == IF n = 0 THEN <<>> ELSE <<n % Base>> \o BFromNat(n \div Base)

RECURSIVE BAddC(_, _, _)
BAddC(a, b, c) ==
    IF a = <<>> /\ b = <<>> THEN (IF c = 0 THEN <<>> ELSE <<c>>)
    ELSE LET x == (IF a = <<>> THEN 0 ELSE Head(a))
                  + (IF b = <<>> THEN 0 ELSE Head(b)) + c
         IN  <<x % Base>> \o BAddC(IF a = <<>> THEN <<>> ELSE Tail(a),
                                   IF b = <<>> THEN <<>> ELSE Tail(b),
                                   x \div Base)

BAdd(a, b) == BAddC(a, b, 0)

RECURSIVE BMulSmallC(_, _, _)
BMulSmallC(a, k, c) ==
    IF a = <<>> THEN (IF c = 0 THEN <<>> ELSE <<c>>)
    ELSE LET x == Head(a) * k + c
         IN  <<x % Base>> \o BMulSmallC(Tail(a), k, x \div Base)

\* a * k for 0 <= k < Base
BMulSmall(a, k) == IF k = 0 THEN <<>> ELSE BMulSmallC(a, k, 0)

\* a * Base^n
BShiftLimbs(a, n) == IF a = <<>> THEN <<>> ELSE [i \in 1..n |-> 0] \o a

\* a - b for a >= b, with possible leading zero limbs
RECURSIVE BSubC(_, _, _)
BSubC(a, b, c) ==
    IF a = <<>> THEN <<>>
    ELSE LET x == Head(a) - (IF b = <<>> THEN 0 ELSE Head(b)) - c
         IN  <<x % Base>> \o BSubC(Tail(a), IF b = <<>> THEN <<>> ELSE Tail(b),
                                   IF x < 0 THEN 1 ELSE 0)

BSub(a, b) == BTrim(BSubC(a, b, 0))

RECURSIVE BMul(_, _)
BMul(a, b) ==
    IF a = <<>> \/ b = <<>> THEN <<>>
    ELSE IF Len(a) < Len(b) THEN BMul(b, a)
    ELSE IF Head(b) = 0 THEN BShiftLimbs(BMul(a, Tail(b)), 1)
    ELSE BAdd(BMulSmall(a, Head(b)), BShiftLimbs(BMul(a, Tail(b)), 1))

\* <<quotient with possible leading zero limbs, remainder>> of a by 0 < d < Base
RECURSIVE BDivRem(_, _)
BDivRem(a, d) ==
    IF a = <<>> THEN << <<>>, 0 >>
    ELSE LET hi  == BDivRem(Tail(a), d)
             cur == hi[2] * Base + Head(a)
         IN  << <<cur \div d>> \o hi[1], cur % d >>

BDivSmall(a, d) == BTrim(BDivRem(a, d)[1])

BModSmall(a, d) == BDivRem(a, d)[2]

\* a * 2^k
BShl(a, k) ==
    IF k = 0 THEN a
    ELSE BShiftLimbs(BMulSmall(a, 2^(k % LimbBits)), k \div LimbBits)

\* floor(a / 2^k)
BShr(a, k) ==
    IF k \div LimbBits >= Len(a) THEN <<>>
    ELSE BDivSmall(SubSeq(a, (k \div LimbBits) + 1, Len(a)), 2^(k % LimbBits))

SmallBitLen(x) == CHOOSE n \in 1..LimbBits : 2^(n - 1) <= x /\ x < 2^n

BBitLen(a) ==
    IF a = <<>> THEN 0 ELSE LimbBits * (Len(a) - 1) + SmallBitLen(a[Len(a)])

\* a mod 2^k # 0
BLowBits(a, k) ==
    \/ \E i \in 1..(k \div LimbBits) : i <= Len(a) /\ a[i] # 0
    \/ /\ k \div LimbBits < Len(a)
       /\ a[(k \div LimbBits) + 1] % 2^(k % LimbBits) # 0

\* bit i (i >= 0) of a
BBit(a, i) ==
    IF i \div LimbBits >= Len(a) THEN 0
    ELSE (a[(i \div LimbBits) + 1] \div 2^(i % LimbBits)) % 2

RECURSIVE BLess(_, _)
BLess(a, b) ==
    IF Len(a) # Len(b) THEN Len(a) < Len(b)
    ELSE IF a = <<>> THEN FALSE
    ELSE IF a[Len(a)] # b[Len(b)] THEN a[Len(a)] < b[Len(b)]
    ELSE BLess(SubSeq(a, 1, Len(a) - 1), SubSeq(b, 1, Len(b) - 1))

(***************************************************************************)
(* Python floats: binary64 values [neg, m, e] meaning (-1)^neg * m * 2^e,   *)
(* with 2^52 <= m < 2^53, or zero.  Every operation computes the exact     *)
(* result and rounds it to nearest, ties to even.  The engine never leaves *)
(* the normal range and never produces -0.0, so subnormals, infinities,    *)
(* NaN and the sign of zero do not occur.                                  *)
(***************************************************************************)
Precision == 53

FZero == [neg |-> FALSE, m |-> <<>>, e |-> 0]

\* the double nearest to m * 2^e, or to a value strictly between m * 2^e and
\* (m+1) * 2^e when sticky is TRUE
RoundToDouble(m, e, sticky) ==
    LET len == BBitLen(m) IN
    IF len = 0 THEN FZero
    ELSE IF len = Precision
    THEN [neg |-> FALSE, m |-> m, e |-> e]
    ELSE IF len < Precision
    THEN [neg |-> FALSE, m |-> BShl(m, Precision - len), e |-> e - (Precision - len)]
    ELSE LET k     == len - Precision
             q     == BShr(m, k)
             half  == BBit(m, k - 1) = 1
             rest  == sticky \/ BLowBits(m, k - 1)
             up    == half /\ (rest \/ BBit(q, 0) = 1)
             r     == IF up THEN BAdd(q, <<1>>) ELSE q
         IN  IF BBitLen(r) > Precision
             THEN [neg |-> FALSE, m |-> BShr(r, 1), e |-> e + k + 1]
             ELSE [neg |-> FALSE, m |-> r, e |-> e + k]

\* float(n) for an int n >= 0
FromInt(n) == RoundToDouble(BFromNat(n), 0, FALSE)

\* the float a decimal literal n/d denotes (0.30 is FromDecimal(30, 100))
GuardBits == 2 * Precision

FromDecimal(n, d) ==
    LET scaled == BShl(BFromNat(n), GuardBits)
    IN  RoundToDouble(BDivSmall(scaled, d), 0 - GuardBits, BModSmall(scaled, d) # 0)

\* x with the sign `neg`; zero stays +0.0
Signed(neg, x) == IF x.m = <<>> THEN x ELSE [x EXCEPT !.neg = neg]

\* -a
FNeg(a) == Signed(~a.neg, a)

\* fabs(a)
FAbs(a) == Signed(FALSE, a)

\* a + b: the magnitudes are added when the signs agree, and the smaller is
\* subtracted from the larger when they differ
FAdd(a, b) ==
    IF a.m = <<>> THEN b
    ELSE IF b.m = <<>> THEN a
    ELSE LET e == IF a.e < b.e THEN a.e ELSE b.e
             x == BShl(a.m, a.e - e)
             y == BShl(b.m, b.e - e)
             aLarger == ~BLess(x, y)
             large == IF aLarger THEN x ELSE y
             small == IF aLarger THEN y ELSE x
         IN  Signed(IF aLarger THEN a.neg ELSE b.neg,
                    RoundToDouble(IF a.neg = b.neg THEN BAdd(large, small)
                                  ELSE BSub(large, small), e, FALSE))

\* a - b
FSub(a, b) == FAdd(a, FNeg(b))

\* a * b
FMul(a, b) ==
    IF a.m = <<>> \/ b.m = <<>> THEN FZero
    ELSE Signed(a.neg # b.neg, RoundToDouble(BMul(a.m, b.m), a.e + b.e, FALSE))

\* |a| < |b|
MagnitudeLess(a, b) ==
    IF b.m = <<>> THEN FALSE
    ELSE IF a.m = <<>> THEN TRUE
    ELSE IF a.e # b.e THEN a.e < b.e
    ELSE BLess(a.m, b.m)

\* a < b
FLess(a, b) ==
    IF a.neg # b.neg THEN a.neg
    ELSE IF a.neg THEN MagnitudeLess(b, a)
    ELSE MagnitudeLess(a, b)

\* a >= b
FGeq(a, b) == ~FLess(a, b)

(***************************************************************************)
(* SolarRiskCalculator configuration (__init__).                           *)
(***************************************************************************)
\* mutants of weights: two category weights exchanged; weights that sum to 0.9
weights_exchanged ==
    [operational |-> FromDecimal(40, 100),
     technical   |-> FromDecimal(30, 100),
     climate     |-> FromDecimal(30, 100)]

weights_unnormalised ==
    [operational |-> FromDecimal(30, 100),
     technical   |-> FromDecimal(40, 100),
     climate     |-> FromDecimal(20, 100)]

weights ==
    [operational |-> FromDecimal(30, 100),
     technical   |-> FromDecimal(40, 100),
     climate     |-> FromDecimal(30, 100)]

operational_weights ==
    [grid_connection |-> FromDecimal(30, 100),
     om_provider     |-> FromDecimal(25, 100),
     regulatory      |-> FromDecimal(25, 100),
     site_access     |-> FromDecimal(20, 100)]

technical_weights ==
    [panel_tech    |-> FromDecimal(25, 100),
     inverter_tech |-> FromDecimal(25, 100),
     system_design |-> FromDecimal(25, 100),
     installation  |-> FromDecimal(25, 100)]

climate_weights ==
    [weather_variability |-> FromDecimal(35, 100),
     extreme_weather     |-> FromDecimal(35, 100),
     resource_stability  |-> FromDecimal(30, 100)]

(***************************************************************************)
(* A Dict[str, int] is a sequence of <<key, value>> pairs with distinct    *)
(* keys, in insertion order: the order in which `for f in d` visits them.  *)
(***************************************************************************)
Keys(d) == {d[i][1] : i \in 1..Len(d)}

\* mutant of Products: the rating scale read upside down (1 best, 5 worst)
ProductsInverted(d, w) ==
    [i \in 1..Len(d) |-> FMul(FromInt(6 - d[i][2]), w[d[i][1]])]

\* the items of the generator (d[f] * w[f] for f in d), in the order of d
Products(d, w) == [i \in 1..Len(d) |-> FMul(FromInt(d[i][2]), w[d[i][1]])]

(***************************************************************************)
(* The builtin sum().  It starts from the int 0, and 0 + x is x, so the    *)
(* first item is taken as it is.  How the other items are added is the     *)
(* interpreter's choice: CPython up to 3.11 adds them one by one from left *)
(* to right; CPython 3.12 and later keeps a running compensation c         *)
(* (Neumaier's summation) and adds it once at the end.                     *)
(***************************************************************************)
PlainSum == "CPython <= 3.11"

CompensatedSum == "CPython >= 3.12"

Interpreters == {PlainSum, CompensatedSum}

RECURSIVE SumLeftToRight(_, _)
SumLeftToRight(items, f_result) ==
    IF items = <<>> THEN f_result
    ELSE SumLeftToRight(Tail(items), FAdd(f_result, Head(items)))

RECURSIVE SumCompensated(_, _, _)
SumCompensated(items, f_result, c) ==
    IF items = <<>> THEN (IF c # FZero THEN FAdd(f_result, c) ELSE f_result)
    ELSE LET x == Head(items)
             t == FAdd(f_result, x)
             fLarger == FGeq(FAbs(f_result), FAbs(x))
             large == IF fLarger THEN f_result ELSE x
             small == IF fLarger THEN x ELSE f_result
         IN  SumCompensated(Tail(items), t, FAdd(c, FAdd(FSub(large, t), small)))

sum(items, interpreter) ==
    IF items = <<>> THEN FZero
    ELSE IF interpreter = CompensatedSum
    THEN SumCompensated(Tail(items), Head(items), FZero)
    ELSE SumLeftToRight(Tail(items), Head(items))

\* the first key of d that w does not have: w[f] raises KeyError there
FirstUnknownKey(d, w) ==
    d[CHOOSE i \in 1..Len(d) :
          /\ d[i][1] \notin DOMAIN w
          /\ \A j \in 1..(i - 1) : d[j][1] \in DOMAIN w][1]

RiskScores(op, tech, cl, ov) ==
    [kind |-> "RiskScores", operational |-> op, technical |-> tech,
     climate |-> cl, overall |-> ov]

KeyError(key) == [kind |-> "KeyError", key |-> key]

NoScores == [kind |-> "None"]

calculate_risk_scores(operational, technical, climate, interpreter) ==
    IF ~(Keys(operational) \subseteq DOMAIN operational_weights)
    THEN KeyError(FirstUnknownKey(operational, operational_weights))
    ELSE IF ~(Keys(technical) \subseteq DOMAIN technical_weights)
    THEN KeyError(FirstUnknownKey(technical, technical_weights))
    ELSE IF ~(Keys(climate) \subseteq DOMAIN climate_weights)
    THEN KeyError(FirstUnknownKey(climate, climate_weights))
    ELSE LET op_score      == sum(Products(operational, operational_weights),
                                  interpreter)
             tech_score    == sum(Products(technical, technical_weights),
                                  interpreter)
             climate_score == sum(Products(climate, climate_weights), interpreter)
             overall_score ==
                 FAdd(FAdd(FMul(op_score, weights.operational),
                           FMul(tech_score, weights.technical)),
                      FMul(climate_score, weights.climate))
         IN  RiskScores(op_score, tech_score, climate_score, overall_score)

\* the float literals of the threshold ladders
Lit4_5 == FromDecimal(45, 10)
Lit3_5 == FromDecimal(35, 10)
Lit2_5 == FromDecimal(25, 10)
Lit1_5 == FromDecimal(15, 10)
Lit4_0 == FromDecimal(40, 10)
Lit3_0 == FromDecimal(30, 10)
Lit2_0 == FromDecimal(20, 10)

\* mutant of get_risk_level: the bounds of the bands exclusive
get_risk_level_strict(s) ==
    IF FLess(Lit4_5, s) THEN "VERY LOW RISK"
    ELSE IF FLess(Lit3_5, s) THEN "LOW RISK"
    ELSE IF FLess(Lit2_5, s) THEN "MEDIUM RISK"
    ELSE IF FLess(Lit1_5, s) THEN "HIGH RISK"
    ELSE "VERY HIGH RISK"

get_risk_level(s) ==
    IF FGeq(s, Lit4_5) THEN "VERY LOW RISK"
    ELSE IF FGeq(s, Lit3_5) THEN "LOW RISK"
    ELSE IF FGeq(s, Lit2_5) THEN "MEDIUM RISK"
    ELSE IF FGeq(s, Lit1_5) THEN "HIGH RISK"
    ELSE "VERY HIGH RISK"

\* mutant of get_risk_color: the cut points of risk_interpretation taken over
get_risk_color_shifted(s) ==
    IF FGeq(s, Lit4_0) THEN "LARGE GREEN CIRCLE"
    ELSE IF FGeq(s, Lit3_0) THEN "LARGE YELLOW CIRCLE"
    ELSE IF FGeq(s, Lit2_0) THEN "LARGE ORANGE CIRCLE"
    ELSE IF FGeq(s, Lit1_5) THEN "LARGE RED CIRCLE"
    ELSE "MEDIUM BLACK CIRCLE"

\* the emoji are written by their Unicode names
get_risk_color(s) ==
    IF FGeq(s, Lit4_5) THEN "LARGE GREEN CIRCLE"
    ELSE IF FGeq(s, Lit3_5) THEN "LARGE YELLOW CIRCLE"
    ELSE IF FGeq(s, Lit2_5) THEN "LARGE ORANGE CIRCLE"
    ELSE IF FGeq(s, Lit1_5) THEN "LARGE RED CIRCLE"
    ELSE "MEDIUM BLACK CIRCLE"

risk_interpretation(overall) ==
    IF FGeq(overall, Lit4_0)
    THEN "Excellent risk profile. Very attractive investment."
    ELSE IF FGeq(overall, Lit3_0)
    THEN "Good risk profile. Solid investment opportunity."
    ELSE IF FGeq(overall, Lit2_0)
    THEN "Moderate risk. Consider risk mitigation strategies."
    ELSE "High risk profile. Significant concerns identified."

OperationalAdvisory ==
    "**Operational:** Consider upgrading O&M provider or improving grid connection."

TechnicalAdvisory ==
    "**Technical:** Review equipment selection and contractor experience."

ClimateAdvisory ==
    "**Climate:** Evaluate insurance options and weather risk mitigation."

NoRecommendations == "No specific recommendations: sub-scores are all >= 3.0."

\* "\n\n".join(recs)
RECURSIVE Join(_)
Join(recs) ==
    IF Len(recs) = 1 THEN Head(recs)
    ELSE Head(recs) \o "\n\n" \o Join(Tail(recs))

\* mutant of recommendations: an advisory also at exactly 3.0
recommendations_inclusive(s) ==
    LET recs == (IF FGeq(Lit3_0, s.operational) THEN <<OperationalAdvisory>> ELSE <<>>)
                \o (IF FGeq(Lit3_0, s.technical) THEN <<TechnicalAdvisory>> ELSE <<>>)
                \o (IF FGeq(Lit3_0, s.climate) THEN <<ClimateAdvisory>> ELSE <<>>)
    IN  IF recs # <<>> THEN Join(recs) ELSE NoRecommendations

recommendations(s) ==
    LET recs == (IF FLess(s.operational, Lit3_0) THEN <<OperationalAdvisory>> ELSE <<>>)
                \o (IF FLess(s.technical, Lit3_0) THEN <<TechnicalAdvisory>> ELSE <<>>)
                \o (IF FLess(s.climate, Lit3_0) THEN <<ClimateAdvisory>> ELSE <<>>)
    IN  IF recs # <<>> THEN Join(recs) ELSE NoRecommendations

(***************************************************************************)
(* The results page (step 5 of the script): what one run displays for a    *)
(* RiskScores value.                                                       *)
(***************************************************************************)
NoDisplay == [kind |-> "None"]

Display(s) ==
    IF s.kind # "RiskScores" THEN NoDisplay
    ELSE [kind            |-> "Results",
          level           |-> [operational |-> get_risk_level(s.operational),
                               technical   |-> get_risk_level(s.technical),
                               climate     |-> get_risk_level(s.climate),
                               overall     |-> get_risk_level(s.overall)],
          indicator       |-> [operational |-> get_risk_color(s.operational),
                               technical   |-> get_risk_color(s.technical),
                               climate     |-> get_risk_color(s.climate),
                               overall     |-> get_risk_color(s.overall)],
          interpretation  |-> risk_interpretation(s.overall),
          recommendations |-> recommendations(s)]

(***************************************************************************)
(* The widgets of the wizard.                                              *)
(***************************************************************************)
MinRating == 1

MaxRating == 5

DefaultRating == 3

DefaultCodYear == 2024

total_steps == 6

Ratings == MinRating..MaxRating

\* the factors of each category, in the order the script builds its dicts
OperationalFactors == <<"grid_connection", "om_provider", "regulatory", "site_access">>

TechnicalFactors == <<"panel_tech", "inverter_tech", "system_design", "installation">>

ClimateFactors == <<"weather_variability", "extreme_weather", "resource_stability">>

Range(seq) == {seq[i] : i \in 1..Len(seq)}

\* the keyed widgets each page creates and the values they start with
WidgetDefaults(page) ==
    CASE page = 0 -> [profile_name |-> <<>>, profile_email |-> <<>>]
      [] page = 1 -> [site_name |-> <<>>, location |-> <<>>,
                      capacity_mw |-> FZero, cod_year |-> DefaultCodYear]
      [] page = 2 -> [f \in Range(OperationalFactors) |-> DefaultRating]
      [] page = 3 -> [f \in Range(TechnicalFactors) |-> DefaultRating]
      [] page = 4 -> [f \in Range(ClimateFactors) |-> DefaultRating]
      [] OTHER    -> <<>>

\* session_state after the page's widgets were rendered: a widget that has no
\* value yet gets its default, one that has keeps it
Render(s, page) ==
    [k \in DOMAIN s \cup DOMAIN WidgetDefaults(page) |->
        IF k \in DOMAIN s THEN s[k] ELSE WidgetDefaults(page)[k]]

\* session_state after the user set the widget `key` to v
Put(s, key, v) == [k \in DOMAIN s \cup {key} |-> IF k = key THEN v ELSE s[k]]

\* texts are sequences of characters; str.strip() drops the whitespace at both ends
Whitespace == {" "}

RECURSIVE LStrip(_)
LStrip(t) == IF t # <<>> /\ Head(t) \in Whitespace THEN LStrip(Tail(t)) ELSE t

RECURSIVE RStrip(_)
RStrip(t) ==
    IF t # <<>> /\ t[Len(t)] \in Whitespace
    THEN RStrip(SubSeq(t, 1, Len(t) - 1))
    ELSE t

Strip(t) == RStrip(LStrip(t))

\* mutant of Incomplete: `and` in the place of `or`
IncompleteBoth(a, b) == Strip(a) = <<>> /\ Strip(b) = <<>>

\* `not a.strip() or not b.strip()`: the test that keeps the wizard on its page
Incomplete(a, b) == Strip(a) = <<>> \/ Strip(b) = <<>>

_go_to_next(s) == [s EXCEPT !["step"] = @ + 1]

\* the dict the results page builds for a category from the sliders
InputsFrom(s, factors) == [i \in 1..Len(factors) |-> <<factors[i], s[factors[i]]>>]

ProfileWarning == "Please fill in both **Name** and **Email** to continue."

SiteWarning == "Please fill in both **Site Name** and **Location** to continue."

NoWarning == "None"

(***************************************************************************)
(* Bounds and input domains.                                               *)
(***************************************************************************)
\* how many times a behaviour raises the one rating it raises
MaxRaises == 2

\* sliders the user may leave away from the default, per session
MaxMoved == 1

\* the scores classified are 0.00, 0.01, ... up to this many hundredths
MaxScoreHundredths == 600

\* what the user may type: nothing, a blank, and a padded name
TextInputs == {<<>>, <<" ">>, <<" ", "a", " ">>}

UniformDict(factors, r) == [i \in 1..Len(factors) |-> <<factors[i], r>>]

Reverse(seq) == [i \in 1..Len(seq) |-> seq[Len(seq) + 1 - i]]

\* a dict that breaks the precondition of calculate_risk_scores in one place:
\* a rating just outside the range, a factor left out, or a key too many
Defective(d) ==
    {[d EXCEPT ![i] = <<d[i][1], v>>] :
        i \in 1..Len(d), v \in {MinRating - 1, MaxRating + 1}}
    \cup {SubSeq(d, 1, i - 1) \o SubSeq(d, i + 1, Len(d)) : i \in 1..Len(d)}
    \cup {Append(d, <<"unexpected_factor", d[1][2]>>)}

ValidRatings(d, w) ==
    /\ Len(d) = Cardinality(DOMAIN w)
    /\ Keys(d) = DOMAIN w
    /\ \A i \in 1..Len(d) : d[i][2] \in Ratings

ValidInputs(op, tech, cl) ==
    /\ ValidRatings(op, operational_weights)
    /\ ValidRatings(tech, technical_weights)
    /\ ValidRatings(cl, climate_weights)

VARIABLES
    python,               \* the interpreter that runs the program
    session_state,        \* st.session_state: key -> value
    warning,              \* the st.warning the latest run displayed
    operational_inputs,   \* the arguments of the latest call of
    technical_inputs,     \*   calculate_risk_scores
    climate_inputs,
    scores,               \* what that call returned or raised
    display,              \* what the results page showed for it
    raised_factor,        \* the factor whose rating the later calls raised
    raises,               \* how many times it was raised
    score,                \* the argument of get_risk_level / get_risk_color
    level,                \* get_risk_level(score)
    color                 \* get_risk_color(score)

vars == <<python, session_state, warning, operational_inputs, technical_inputs,
          climate_inputs, scores, display, raised_factor, raises, score,
          level, color>>

wizardVars == <<session_state, warning>>

engineVars == <<operational_inputs, technical_inputs, climate_inputs, scores,
                display, raised_factor, raises>>

classifyVars == <<score, level, color>>

NoSession == <<>>

NotCalled == "not called"

NoFactor == "none"

WizardIdle == session_state = NoSession /\ warning = NoWarning

EngineIdle ==
    /\ operational_inputs = <<>>
    /\ technical_inputs = <<>>
    /\ climate_inputs = <<>>
    /\ scores = NoScores
    /\ display = NoDisplay
    /\ raised_factor = NoFactor
    /\ raises = 0

ClassifyIdle == score = FZero /\ level = NotCalled /\ color = NotCalled

(***************************************************************************)
(* The scoring engine called directly.                                     *)
(***************************************************************************)
InitEngine ==
    /\ python \in Interpreters
    /\ WizardIdle
    /\ ClassifyIdle
    /\ scores = NoScores
    /\ display = NoDisplay
    /\ raised_factor = NoFactor
    /\ raises = 0
    /\ \/ \E o \in Ratings, t \in Ratings, c \in Ratings, rev \in BOOLEAN :
            /\ operational_inputs =
                 IF rev THEN Reverse(UniformDict(OperationalFactors, o))
                 ELSE UniformDict(OperationalFactors, o)
            /\ technical_inputs =
                 IF rev THEN Reverse(UniformDict(TechnicalFactors, t))
                 ELSE UniformDict(TechnicalFactors, t)
            /\ climate_inputs =
                 IF rev THEN Reverse(UniformDict(ClimateFactors, c))
                 ELSE UniformDict(ClimateFactors, c)
       \/ \E b \in Ratings :
            \/ /\ operational_inputs \in Defective(UniformDict(OperationalFactors, b))
               /\ technical_inputs = UniformDict(TechnicalFactors, b)
               /\ climate_inputs = UniformDict(ClimateFactors, b)
            \/ /\ operational_inputs = UniformDict(OperationalFactors, b)
               /\ technical_inputs \in Defective(UniformDict(TechnicalFactors, b))
               /\ climate_inputs = UniformDict(ClimateFactors, b)
            \/ /\ operational_inputs = UniformDict(OperationalFactors, b)
               /\ technical_inputs = UniformDict(TechnicalFactors, b)
               /\ climate_inputs \in Defective(UniformDict(ClimateFactors, b))

\* calculator.calculate_risk_scores(operational_inputs, technical_inputs,
\* climate_inputs), and the results shown for what it returns
Calculate ==
    /\ scores = NoScores
    /\ scores' = calculate_risk_scores(operational_inputs, technical_inputs,
                                       climate_inputs, python)
    /\ display' = Display(scores')
    /\ UNCHANGED <<operational_inputs, technical_inputs, climate_inputs,
                   raised_factor, raises>>
    /\ UNCHANGED <<wizardVars, classifyVars, python>>

Raised(d, i) == [d EXCEPT ![i] = <<d[i][1], d[i][2] + 1>>]

\* the same call again with the rating at position i of one dict one higher,
\* every other rating held fixed; a behaviour keeps raising the same factor
RaiseOperational(i) ==
    /\ operational_inputs[i][2] < MaxRating
    /\ raised_factor \in {NoFactor, operational_inputs[i][1]}
    /\ raised_factor' = operational_inputs[i][1]
    /\ operational_inputs' = Raised(operational_inputs, i)
    /\ UNCHANGED <<technical_inputs, climate_inputs>>

RaiseTechnical(i) ==
    /\ technical_inputs[i][2] < MaxRating
    /\ raised_factor \in {NoFactor, technical_inputs[i][1]}
    /\ raised_factor' = technical_inputs[i][1]
    /\ technical_inputs' = Raised(technical_inputs, i)
    /\ UNCHANGED <<operational_inputs, climate_inputs>>

RaiseClimate(i) ==
    /\ climate_inputs[i][2] < MaxRating
    /\ raised_factor \in {NoFactor, climate_inputs[i][1]}
    /\ raised_factor' = climate_inputs[i][1]
    /\ climate_inputs' = Raised(climate_inputs, i)
    /\ UNCHANGED <<operational_inputs, technical_inputs>>

RaiseRating ==
    /\ scores.kind = "RiskScores"
    /\ raises < MaxRaises
    /\ ValidInputs(operational_inputs, technical_inputs, climate_inputs)
    /\ \/ \E i \in 1..Len(operational_inputs) : RaiseOperational(i)
       \/ \E i \in 1..Len(technical_inputs) : RaiseTechnical(i)
       \/ \E i \in 1..Len(climate_inputs) : RaiseClimate(i)
    /\ raises' = raises + 1
    /\ scores' = calculate_risk_scores(operational_inputs', technical_inputs',
                                       climate_inputs', python)
    /\ display' = Display(scores')
    /\ UNCHANGED <<wizardVars, classifyVars, python>>

NextEngine == Calculate \/ RaiseRating

Spec == InitEngine /\ [][NextEngine]_vars

(***************************************************************************)
(* The two classifiers called directly on a score.                         *)
(***************************************************************************)
ScoreInputs == {FromDecimal(n, 100) : n \in 0..MaxScoreHundredths}

InitClassify ==
    /\ python \in Interpreters
    /\ WizardIdle
    /\ EngineIdle
    /\ score \in ScoreInputs
    /\ level = NotCalled
    /\ color = NotCalled

GetRiskLevel ==
    /\ level = NotCalled
    /\ level' = get_risk_level(score)
    /\ UNCHANGED <<score, color, wizardVars, engineVars, python>>

GetRiskColor ==
    /\ color = NotCalled
    /\ color' = get_risk_color(score)
    /\ UNCHANGED <<score, level, wizardVars, engineVars, python>>

NextClassify == GetRiskLevel \/ GetRiskColor

SpecClassify == InitClassify /\ [][NextClassify]_vars

(***************************************************************************)
(* The wizard.  Every action is one run of the script: Streamlit runs it   *)
(* from the top after each interaction of the user, with the widget the    *)
(* user touched already set in session_state; st.button returns True in    *)
(* the run its click started.  The branch of the page at the current step  *)
(* renders that page's widgets.  Values in session_state stay until the    *)
(* script deletes them.  The script's own variables (scores, the dicts)    *)
(* live for one run.  capacity_mw and cod_year keep their defaults: no     *)
(* step and no score reads them.                                           *)
(***************************************************************************)
step == session_state["step"]

\* the first run of a session: step is set to 0 and page 0 is rendered
InitWizard ==
    /\ python \in Interpreters
    /\ session_state = Render([step |-> 0], 0)
    /\ warning = NoWarning
    /\ EngineIdle
    /\ ClassifyIdle

\* what a run leaves that does not reach the results page
NoResults ==
    /\ operational_inputs' = <<>>
    /\ technical_inputs' = <<>>
    /\ climate_inputs' = <<>>
    /\ scores' = NoScores
    /\ display' = NoDisplay
    /\ UNCHANGED <<raised_factor, raises, classifyVars, python>>

\* step 0: the user typed a name or an email
EditProfile ==
    /\ step = 0
    /\ \E key \in {"profile_name", "profile_email"}, text \in TextInputs :
          session_state' = Put(Render(session_state, 0), key, text)
    /\ warning' = NoWarning
    /\ NoResults

\* step 0: the user clicked Next
NextProfile ==
    /\ step = 0
    /\ LET s == Render(session_state, 0) IN
       IF Incomplete(s["profile_name"], s["profile_email"])
       THEN session_state' = s /\ warning' = ProfileWarning
       ELSE session_state' = _go_to_next(s) /\ warning' = NoWarning
    /\ NoResults

\* step 1: the user typed a site name or a location
EditSite ==
    /\ step = 1
    /\ \E key \in {"site_name", "location"}, text \in TextInputs :
          session_state' = Put(Render(session_state, 1), key, text)
    /\ warning' = NoWarning
    /\ NoResults

\* step 1: the user clicked Next
NextSite ==
    /\ step = 1
    /\ LET s == Render(session_state, 1) IN
       IF Incomplete(s["site_name"], s["location"])
       THEN session_state' = s /\ warning' = SiteWarning
       ELSE session_state' = _go_to_next(s) /\ warning' = NoWarning
    /\ NoResults

SliderPages == {2, 3, 4}

AllFactors == OperationalFactors \o TechnicalFactors \o ClimateFactors

Moved(s) == {f \in Range(AllFactors) \cap DOMAIN s : s[f] # DefaultRating}

\* steps 2 to 4: the user moved a slider of the page
MoveSlider ==
    /\ step \in SliderPages
    /\ \E key \in DOMAIN WidgetDefaults(step), v \in Ratings :
          /\ session_state' = Put(Render(session_state, step), key, v)
          /\ Cardinality(Moved(session_state')) <= MaxMoved
    /\ warning' = NoWarning
    /\ NoResults

\* step 2: the user clicked Next
NextOperational ==
    /\ step = 2
    /\ session_state' = _go_to_next(Render(session_state, 2))
    /\ warning' = NoWarning
    /\ NoResults

\* step 3: the user clicked Next
NextTechnical ==
    /\ step = 3
    /\ session_state' = _go_to_next(Render(session_state, 3))
    /\ warning' = NoWarning
    /\ NoResults

\* step 4: the user clicked Next
NextClimate ==
    /\ step = 4
    /\ session_state' = _go_to_next(Render(session_state, 4))
    /\ warning' = NoWarning
    /\ NoResults

\* step 5: the script gathers the ratings, computes and shows the scores
ComputeResults ==
    /\ operational_inputs' = InputsFrom(session_state, OperationalFactors)
    /\ technical_inputs' = InputsFrom(session_state, TechnicalFactors)
    /\ climate_inputs' = InputsFrom(session_state, ClimateFactors)
    /\ scores' = calculate_risk_scores(operational_inputs', technical_inputs',
                                       climate_inputs', python)
    /\ display' = Display(scores')
    /\ warning' = NoWarning
    /\ UNCHANGED <<raised_factor, raises, classifyVars, python>>

\* step 5: a run without a click on Start Over
Results ==
    /\ step = 5
    /\ ComputeResults
    /\ UNCHANGED session_state

\* step 5: the user clicked Start Over; the results are shown, then every key
\* is deleted and step is set to 0
StartOver ==
    /\ step = 5
    /\ ComputeResults
    /\ session_state' = [step |-> 0]

NextWizard ==
    \/ EditProfile
    \/ NextProfile
    \/ EditSite
    \/ NextSite
    \/ MoveSlider
    \/ NextOperational
    \/ NextTechnical
    \/ NextClimate
    \/ Results
    \/ StartOver

SpecWizard == InitWizard /\ [][NextWizard]_vars

(***************************************************************************)
(* Properties.                                                             *)
(***************************************************************************)
One == FromInt(1)

Three == FromInt(3)

Five == FromInt(5)

InRange(v) == FGeq(v, One) /\ FGeq(Five, v)

Called == scores.kind # "None"

Returned == scores.kind = "RiskScores"

Valid == ValidInputs(operational_inputs, technical_inputs, climate_inputs)

AllRatings(d, r) == \A i \in 1..Len(d) : d[i][2] = r

\* C1: whenever a supplied rating lies outside [1,5], calculate_risk_scores
\* fails (with a ValidationError) and produces no RiskScores.  Any failure is
\* accepted here as the failure the claim asks for.
HasRatingOutOfRange ==
    \E d \in {operational_inputs, technical_inputs, climate_inputs} :
        \E i \in 1..Len(d) : d[i][2] \notin Ratings

C1_OutOfRangeRejected == (Called /\ HasRatingOutOfRange) => ~Returned

\* C2: whenever the key set of a rating mapping differs from the configured
\* factors of its category (a factor missing, or an extra key),
\* calculate_risk_scores fails (with a ValidationError) and produces no
\* RiskScores.  Any failure is accepted here as the failure the claim asks for.
KeySetMismatch ==
    \/ Keys(operational_inputs) # DOMAIN operational_weights
    \/ Keys(technical_inputs) # DOMAIN technical_weights
    \/ Keys(climate_inputs) # DOMAIN climate_weights

C2_KeyMismatchRejected == (Called /\ KeySetMismatch) => ~Returned

\* C3: for all valid ratings (every factor rated 1..5, key sets matching), the
\* operational, technical, climate and overall scores all lie in [1.0, 5.0].
C3_ScoresInRange ==
    (Returned /\ Valid) =>
        /\ InRange(scores.operational)
        /\ InRange(scores.technical)
        /\ InRange(scores.climate)
        /\ InRange(scores.overall)

\* C4: with operational ratings all 5, technical all 1 and climate all 5 the
\* scores are 5.0, 1.0, 5.0, the recommendations are the technical advisory
\* alone, and -- as the claim has it -- overall is 2.8 and its level HIGH RISK.
Scenario2 ==
    /\ Valid
    /\ AllRatings(operational_inputs, 5)
    /\ AllRatings(technical_inputs, 1)
    /\ AllRatings(climate_inputs, 5)

Scenario2SubScores ==
    /\ scores.operational = Five
    /\ scores.technical = One
    /\ scores.climate = Five
    /\ display.recommendations = TechnicalAdvisory

C4_Scenario2AsClaimed ==
    (Called /\ Scenario2) =>
        /\ Returned
        /\ Scenario2SubScores
        /\ scores.overall = FromDecimal(28, 10)
        /\ display.level.overall = "HIGH RISK"

\* C4, amended: in that scenario the scores are 5.0, 1.0, 5.0, overall is 3.4
\* (5.0*0.30 + 1.0*0.40 + 5.0*0.30), the level of overall is MEDIUM RISK, and
\* the recommendations are the technical advisory alone.
C4_Scenario2 ==
    (Called /\ Scenario2) =>
        /\ Returned
        /\ Scenario2SubScores
        /\ scores.overall = FromDecimal(34, 10)
        /\ display.level.overall = "MEDIUM RISK"

C4_Witness == Returned /\ Scenario2

\* C5: get_risk_level maps every score to exactly one of five levels, the
\* bands being [4.5, ..) VERY LOW RISK, [3.5, 4.5) LOW RISK, [2.5, 3.5) MEDIUM
\* RISK, [1.5, 2.5) HIGH RISK and (.., 1.5) VERY HIGH RISK: a score equal to a
\* threshold is in the band above it.
Band(lo, hi) == FGeq(score, FromDecimal(lo, 10)) /\ FLess(score, FromDecimal(hi, 10))

C5_LevelLadder ==
    level # NotCalled =>
        /\ level \in {"VERY LOW RISK", "LOW RISK", "MEDIUM RISK", "HIGH RISK",
                      "VERY HIGH RISK"}
        /\ (level = "VERY LOW RISK") <=> FGeq(score, FromDecimal(45, 10))
        /\ (level = "LOW RISK") <=> Band(35, 45)
        /\ (level = "MEDIUM RISK") <=> Band(25, 35)
        /\ (level = "HIGH RISK") <=> Band(15, 25)
        /\ (level = "VERY HIGH RISK") <=> FLess(score, FromDecimal(15, 10))

C5_Witness == score = FromDecimal(45, 10) /\ level = "VERY LOW RISK"

\* C6: for every score in [1,5], get_risk_level and get_risk_color pick the
\* same band: the indicator is the one that corresponds to the level under
\* the one-to-one table below, so equal levels mean equal indicators and back.
IndicatorOf ==
    ("VERY LOW RISK" :> "LARGE GREEN CIRCLE")
    @@ ("LOW RISK" :> "LARGE YELLOW CIRCLE")
    @@ ("MEDIUM RISK" :> "LARGE ORANGE CIRCLE")
    @@ ("HIGH RISK" :> "LARGE RED CIRCLE")
    @@ ("VERY HIGH RISK" :> "MEDIUM BLACK CIRCLE")

C6_LevelMatchesIndicator ==
    (level # NotCalled /\ color # NotCalled /\ InRange(score)) =>
        /\ level \in DOMAIN IndicatorOf
        /\ color = IndicatorOf[level]
        /\ \A l \in DOMAIN IndicatorOf : IndicatorOf[l] = color => l = level

C6_Witness ==
    /\ score = FromDecimal(35, 10)
    /\ level = "LOW RISK"
    /\ color = "LARGE YELLOW CIRCLE"

\* C7: recommendations(scores) holds exactly one advisory for each sub-score
\* strictly below 3.0 (none for a sub-score of exactly 3.0), in the order
\* operational, technical, climate, joined by a blank line; it is the "no
\* recommendations" sentence if and only if no sub-score is below 3.0.  It is
\* a function of the three sub-scores alone.
Paragraphs(a, b) == a \o "\n\n" \o b

ExpectedAdvice(o, t, c) ==
    CASE o /\ t /\ c    -> Paragraphs(OperationalAdvisory,
                                      Paragraphs(TechnicalAdvisory, ClimateAdvisory))
      [] o /\ t /\ ~c   -> Paragraphs(OperationalAdvisory, TechnicalAdvisory)
      [] o /\ ~t /\ c   -> Paragraphs(OperationalAdvisory, ClimateAdvisory)
      [] ~o /\ t /\ c   -> Paragraphs(TechnicalAdvisory, ClimateAdvisory)
      [] o /\ ~t /\ ~c  -> OperationalAdvisory
      [] ~o /\ t /\ ~c  -> TechnicalAdvisory
      [] ~o /\ ~t /\ c  -> ClimateAdvisory
      [] ~o /\ ~t /\ ~c -> NoRecommendations

C7_Recommendations ==
    Returned =>
        LET o == FLess(scores.operational, Three)
            t == FLess(scores.technical, Three)
            c == FLess(scores.climate, Three)
        IN  /\ display.recommendations = ExpectedAdvice(o, t, c)
            /\ (display.recommendations = NoRecommendations) <=> (~o /\ ~t /\ ~c)

C7_Witness ==
    /\ Returned
    /\ scores.operational = Three
    /\ display.recommendations = Paragraphs(TechnicalAdvisory, ClimateAdvisory)

\* C8: raising one rating (at most 4) by 1, the others fixed, never lowers
\* the sub-score of that factor's category nor the overall score, and leaves
\* the other two sub-scores as they were.
RaiseIsMonotone ==
    raises' = raises + 1 =>
        /\ scores'.kind = "RiskScores"
        /\ FGeq(scores'.overall, scores.overall)
        /\ operational_inputs' # operational_inputs =>
              /\ FGeq(scores'.operational, scores.operational)
              /\ scores'.technical = scores.technical
              /\ scores'.climate = scores.climate
        /\ technical_inputs' # technical_inputs =>
              /\ FGeq(scores'.technical, scores.technical)
              /\ scores'.operational = scores.operational
              /\ scores'.climate = scores.climate
        /\ climate_inputs' # climate_inputs =>
              /\ FGeq(scores'.climate, scores.climate)
              /\ scores'.operational = scores.operational
              /\ scores'.technical = scores.technical

C8_Monotone == [][RaiseIsMonotone]_vars

C8_Witness == raises > 0 /\ Returned /\ Valid

\* C9: for valid ratings, if the recommendations are the "no recommendations"
\* sentence then overall is at least 3.0, its interpretation is the Good or
\* the Excellent sentence and its level is neither HIGH RISK nor VERY HIGH
\* RISK; and whenever overall is below 3.0 some advisory is given.
C9_NoAdviceMeansGood ==
    (Returned /\ Valid) =>
        /\ display.recommendations = NoRecommendations =>
              /\ FGeq(scores.overall, Three)
              /\ display.interpretation \in
                    {"Good risk profile. Solid investment opportunity.",
                     "Excellent risk profile. Very attractive investment."}
              /\ display.level.overall \notin {"HIGH RISK", "VERY HIGH RISK"}
        /\ FLess(scores.overall, Three) =>
              display.recommendations # NoRecommendations

C9_Witness ==
    Returned /\ Valid /\ display.recommendations = NoRecommendations

\* C10: in the wizard, step stays in 0..5; it changes only by +1 on a Next
\* click -- at step 0 only with a name and an email that are not blank, at
\* step 1 only with a site name and a location that are not blank -- or by
\* the reset to 0 of Start Over at step 5, which deletes every other key;
\* scores are computed only by a run at step 5; no click takes step past 5.
Blank(text) == \A i \in 1..Len(text) : text[i] = " "

Filled(key) == key \in DOMAIN session_state /\ ~Blank(session_state[key])

StepRule ==
    step' # step =>
        \/ /\ step < total_steps - 1
           /\ step' = step + 1
           /\ step = 0 => Filled("profile_name") /\ Filled("profile_email")
           /\ step = 1 => Filled("site_name") /\ Filled("location")
        \/ /\ step = total_steps - 1
           /\ step' = 0
           /\ DOMAIN session_state' = {"step"}

ScoresRule == scores'.kind # "None" => step = total_steps - 1

C10_WizardOrder ==
    /\ [](step \in 0..(total_steps - 1))
    /\ [][StepRule /\ ScoresRule]_vars

C10_Witness ==
    /\ step = total_steps - 1
    /\ Returned
    /\ Filled("profile_name") /\ Filled("profile_email")
    /\ Filled("site_name") /\ Filled("location")

=============================================================================
